---------------------------- MODULE Spec2Model ----------------------------
(***************************************************************************)
(* A model of the two programs of the repository:                          *)
(*                                                                         *)
(*   src/js/iterateCharactersFromFile.js                                   *)
(*       iterateChunksFromFile     the chunk source (byte windows)         *)
(*       iterateCharactersFromFile the chunked UTF-8 character decoder     *)
(*       charBytes                 the leading-byte classification         *)
(*   src/js/csvParser.js                                                   *)
(*       parseCSV                  the 4-state CSV grammar engine          *)
(*                                                                         *)
(* Bytes and characters are integers (byte values, code points); a byte    *)
(* array and a string are sequences of them.  Source positions are         *)
(* 0-based, sequences are 1-based: the byte at source position p of a      *)
(* sequence s is s[p + 1].                                                 *)
(***************************************************************************)
EXTENDS Integers, Sequences, FiniteSets, TLC

VARIABLES
    \* ---- iterateChunksFromFile
    file,        \* the bytes of the file (file.size = Len(file))
    want,        \* the window size of the chunk source
    offset,      \* iterateChunksFromFile: let offset
    nreads,      \* history: number of file.slice(..).arrayBuffer() reads issued
    chunk,       \* the chunk last yielded by the chunk source
    csrc,        \* position of the chunk source: "run", "done"
    \* ---- iterateCharactersFromFile
    fragment,    \* let fragment
    start,       \* let start
    emitted,     \* history: the Characters yielded so far, in order
    warned,      \* history: console.log('UTF-8ではない') was executed
    dpc,         \* position of the decoder: "next", "loop", "after", "done",
                 \* and, when run by a consumer, "yield31", "char", "yield55"
    \* ---- the consumer of iterateCharactersFromFile
    requested,   \* a next() of the consumer is waiting for its Character
    nrequests,   \* history: number of next() calls of the consumer
    stopped,     \* the consumer has stopped iterating
    nconsumed,   \* history: number of chunks whose while loop has ended
    \* ---- parseCSV
    input,       \* the parameter input
    strict,      \* const strict
    allowBareLF, \* const allowBareLF
    allowBareCR, \* const allowBareCR
    state,       \* let state
    i,           \* let i
    field,       \* let field
    row,         \* let row
    rows,        \* const rows
    err,         \* the kind of the SyntaxError thrown, "none" when none
    nsep,        \* history: number of endRecord() calls made by the scan
    lastSep,     \* history: the last scan step was an endRecord() step
    ppc          \* position of the parser: "scan", "returned", "thrown", "off"

chunkVars == <<file, want, offset, nreads, chunk, csrc>>
decoderVars == <<fragment, start, emitted, warned, dpc>>
parserVars == <<input, strict, allowBareLF, allowBareCR, state, i, field, row,
                rows, err, nsep, lastSep, ppc>>
consumerVars == <<requested, nrequests, stopped, nconsumed>>
vars == <<chunkVars, decoderVars, consumerVars, parserVars>>

\* ------------------------------------------------------------------------
\* Bounds of the model
\* ------------------------------------------------------------------------
MaxFileSize == 9
MaxWant == 4
MaxChars == 3
MaxLen == 4
MaxQuoted == 3
MaxCtl == 3
MaxBytes == 4

\* ------------------------------------------------------------------------
\* Helpers on sequences
\* ------------------------------------------------------------------------
Min(a, b) == IF a <= b THEN a ELSE b

\* TypedArray.prototype.slice(from, to) / Blob.slice(from, to), 0 <= from:
\* the elements at source positions from .. to-1, clamped to the length.
Slice(s, from, to) ==
    LET e == Min(to, Len(s))
    IN  IF from >= e THEN <<>> ELSE SubSeq(s, from + 1, e)

RECURSIVE Flatten(_)
Flatten(ss) == IF ss = <<>> THEN <<>> ELSE Head(ss) \o Flatten(Tail(ss))

SeqsUpTo(S, n) == UNION {[1..k -> S] : k \in 0..n}

\* ========================================================================
\* src/js/iterateCharactersFromFile.js
\* ========================================================================

\* const CHUNK_SIZE = 1 * 1024 * 1024
CHUNK_SIZE == 1048576

\* The value of chunk[p] for p outside the array (JavaScript's undefined).
\* Every comparison `k <= undefined` is false, as every `k <= -1` below is.
Undefined == -1

ByteAt(c, p) == IF p < Len(c) THEN c[p + 1] ELSE Undefined

\* function charBytes(head)
charBytes(head) ==
    IF 240 <= head THEN 4
    ELSE IF 224 <= head THEN 3
    ELSE IF 192 <= head THEN 2
    ELSE 1

\* Mutant of chunkEnd: the end of the window is not clamped to file.size.
chunkEnd_unclamped(off, w, size) == off + w

\* iterateChunksFromFile: const end = Math.min(offset + want, file.size)
chunkEnd(off, w, size) == Min(off + w, size)

\* iterateChunksFromFile: one iteration of `while (offset < file.size)` with
\* window w: the read of [offset, end), the yield of the chunk, offset = end.
ReadChunk(w) ==
    /\ csrc = "run"
    /\ offset < Len(file)
    /\ LET end == chunkEnd(offset, w, Len(file))
       IN  /\ chunk' = Slice(file, offset, end)
           /\ offset' = end
    /\ nreads' = nreads + 1
    /\ UNCHANGED <<file, want, csrc>>

\* iterateChunksFromFile: the loop condition fails and the generator returns.
ChunkSourceReturn ==
    /\ csrc = "run"
    /\ ~(offset < Len(file))
    /\ csrc' = "done"
    /\ UNCHANGED <<file, want, offset, nreads, chunk>>

\* Mutant of WhileBody: after the pending fragment is completed the scan of
\* the chunk restarts at position 0 instead of remainSize.
WhileBody_restart(st, fr, ch) ==
    LET chunkSize == Len(ch)
        pending == st = 0 /\ Len(fr) > 0
        remainSize == charBytes(fr[1]) - Len(fr)
    IN  IF pending /\ st + remainSize > chunkSize
        THEN [start |-> chunkSize, fragment |-> fr \o ch, yields |-> <<>>]
        ELSE
          LET combined == fr \o Slice(ch, st, remainSize)
              y1 == IF pending THEN <<combined>> ELSE <<>>
              fr1 == IF pending THEN <<>> ELSE fr
              st1 == IF pending THEN 0 ELSE st
              n == charBytes(ByteAt(ch, st1))
              carryOver == st1 + n > chunkSize
              end == IF carryOver THEN chunkSize ELSE st1 + n
              character == Slice(ch, st1, end)
          IN  [start |-> end,
               fragment |-> IF carryOver THEN character ELSE fr1,
               yields |-> IF carryOver THEN y1 ELSE Append(y1, character)]

\* Mutant of WhileBody: a character that reaches into the next chunk is
\* yielded as it is instead of being carried over as the fragment.
WhileBody_split(st, fr, ch) ==
    LET chunkSize == Len(ch)
        pending == st = 0 /\ Len(fr) > 0
        remainSize == charBytes(fr[1]) - Len(fr)
    IN  IF pending /\ st + remainSize > chunkSize
        THEN [start |-> chunkSize, fragment |-> fr \o ch, yields |-> <<>>]
        ELSE
          LET combined == fr \o Slice(ch, st, remainSize)
              y1 == IF pending THEN <<combined>> ELSE <<>>
              fr1 == IF pending THEN <<>> ELSE fr
              st1 == IF pending THEN remainSize ELSE st
              n == charBytes(ByteAt(ch, st1))
              carryOver == st1 + n > chunkSize
              end == IF carryOver THEN chunkSize ELSE st1 + n
              character == Slice(ch, st1, end)
          IN  [start |-> end,
               fragment |-> fr1,
               yields |-> Append(y1, character)]

\* Mutant of WhileBody: a character that reaches into the next chunk is
\* neither yielded nor carried over.
WhileBody_dropsCarry(st, fr, ch) ==
    LET chunkSize == Len(ch)
        pending == st = 0 /\ Len(fr) > 0
        remainSize == charBytes(fr[1]) - Len(fr)
    IN  IF pending /\ st + remainSize > chunkSize
        THEN [start |-> chunkSize, fragment |-> fr \o ch, yields |-> <<>>]
        ELSE
          LET combined == fr \o Slice(ch, st, remainSize)
              y1 == IF pending THEN <<combined>> ELSE <<>>
              fr1 == IF pending THEN <<>> ELSE fr
              st1 == IF pending THEN remainSize ELSE st
              n == charBytes(ByteAt(ch, st1))
              carryOver == st1 + n > chunkSize
              end == IF carryOver THEN chunkSize ELSE st1 + n
              character == Slice(ch, st1, end)
          IN  [start |-> end,
               fragment |-> fr1,
               yields |-> IF carryOver THEN y1 ELSE Append(y1, character)]

\* iterateCharactersFromFile: one iteration of `while (start < chunkSize)`
\* from position st with pending fragment fr in chunk ch.  The result is the
\* new start, the new fragment and the Characters yielded, in order.
WhileBody(st, fr, ch) ==
    LET chunkSize == Len(ch)
        pending == st = 0 /\ Len(fr) > 0
        remainSize == charBytes(fr[1]) - Len(fr)
    IN  IF pending /\ st + remainSize > chunkSize
        THEN [start |-> chunkSize, fragment |-> fr \o ch, yields |-> <<>>]
        ELSE
          LET combined == fr \o Slice(ch, st, remainSize)
              y1 == IF pending THEN <<combined>> ELSE <<>>
              fr1 == IF pending THEN <<>> ELSE fr
              st1 == IF pending THEN remainSize ELSE st
              n == charBytes(ByteAt(ch, st1))
              carryOver == st1 + n > chunkSize
              end == IF carryOver THEN chunkSize ELSE st1 + n
              character == Slice(ch, st1, end)
          IN  [start |-> end,
               fragment |-> IF carryOver THEN character ELSE fr1,
               yields |-> IF carryOver THEN y1 ELSE Append(y1, character)]

\* `for await (const chunk of iterateChunksFromFile(file))`: the decoder pulls
\* the next chunk (of window w) and starts scanning it at position 0.
NextChunk(w) ==
    /\ dpc = "next"
    /\ ReadChunk(w)
    /\ start' = 0
    /\ dpc' = "loop"
    /\ UNCHANGED <<fragment, emitted, warned>>

\* `for await`: the chunk source has returned; the loop over the chunks ends.
ChunksExhausted ==
    /\ dpc = "next"
    /\ ChunkSourceReturn
    /\ dpc' = "after"
    /\ UNCHANGED <<fragment, start, emitted, warned>>

\* One iteration of `while (start < chunkSize)`.
WhileIteration ==
    /\ dpc = "loop"
    /\ start < Len(chunk)
    /\ LET r == WhileBody(start, fragment, chunk)
       IN  /\ start' = r.start
           /\ fragment' = r.fragment
           /\ emitted' = emitted \o r.yields
    /\ UNCHANGED <<warned, dpc, chunkVars>>

\* `while (start < chunkSize)` fails: the chunk is consumed.
WhileExit ==
    /\ dpc = "loop"
    /\ ~(start < Len(chunk))
    /\ dpc' = "next"
    /\ UNCHANGED <<fragment, start, emitted, warned, chunkVars>>

\* Mutant of DecoderReturn: a pending fragment is emitted as a Character.
DecoderReturn_flush ==
    /\ dpc = "after"
    /\ warned' = (Len(fragment) > 0)
    /\ emitted' = IF Len(fragment) > 0 THEN Append(emitted, fragment)
                  ELSE emitted
    /\ dpc' = "done"
    /\ UNCHANGED <<fragment, start, chunkVars>>

\* if (fragment.length > 0) console.log(..), and the generator returns.
DecoderReturn ==
    /\ dpc = "after"
    /\ warned' = (Len(fragment) > 0)
    /\ dpc' = "done"
    /\ UNCHANGED <<fragment, start, emitted, chunkVars>>

\* The decoding of buffer b handed over as one single chunk: the iterations
\* of `while (start < chunkSize)` from start = 0 with no fragment pending.
RECURSIVE WhileLoop(_, _, _, _)
WhileLoop(st, fr, ch, ys) ==
    IF st < Len(ch)
    THEN LET r == WhileBody(st, fr, ch)
         IN  WhileLoop(r.start, r.fragment, ch, ys \o r.yields)
    ELSE [fragment |-> fr, yields |-> ys]

DecodeSingleChunk(b) == WhileLoop(0, <<>>, b, <<>>).yields

\* The parser is not part of the decoder's and the chunk source's runs.
ParserOff ==
    /\ input = <<>> /\ strict = TRUE /\ allowBareLF = FALSE /\ allowBareCR = FALSE
    /\ state = 0 /\ i = 0 /\ field = <<>> /\ row = <<>> /\ rows = <<>>
    /\ err = "none" /\ nsep = 0 /\ lastSep = FALSE /\ ppc = "off"

DecoderOff ==
    /\ fragment = <<>> /\ start = 0 /\ emitted = <<>> /\ warned = FALSE
    /\ dpc = "off"

ChunkSourceOff ==
    /\ file = <<>> /\ want = 0 /\ offset = 0 /\ nreads = 0 /\ chunk = <<>>
    /\ csrc = "off"

\* No consumer is part of the run.
ConsumerOff ==
    /\ requested = FALSE /\ nrequests = 0 /\ stopped = FALSE /\ nconsumed = 0

\* ---- the chunk source alone: a file of each size, a window of each size
FileOfSize(n) == [j \in 1..n |-> (j - 1) % 256]

InitChunks ==
    /\ file \in {FileOfSize(n) : n \in 0..MaxFileSize}
    /\ want \in (1..MaxWant) \cup {CHUNK_SIZE}
    /\ offset = 0 /\ nreads = 0 /\ chunk = <<>> /\ csrc = "run"
    /\ DecoderOff /\ ConsumerOff /\ ParserOff

iterateChunksFromFile ==
    \/ ReadChunk(want) /\ UNCHANGED <<decoderVars, consumerVars, parserVars>>
    \/ ChunkSourceReturn /\ UNCHANGED <<decoderVars, consumerVars, parserVars>>

SpecChunks == InitChunks /\ [][iterateChunksFromFile]_vars

\* ---- the decoder over every well-formed buffer and every partition of it
\* into chunks: each pull draws a window of any positive size.
Utf8Chars == {<<65>>, <<195, 169>>, <<227, 129, 130>>, <<240, 159, 152, 128>>}

WellFormed == {Flatten(cs) : cs \in SeqsUpTo(Utf8Chars, MaxChars)}

InitDecoder ==
    /\ file \in WellFormed
    /\ want = 0 /\ offset = 0 /\ nreads = 0 /\ chunk = <<>> /\ csrc = "run"
    /\ fragment = <<>> /\ start = 0 /\ emitted = <<>> /\ warned = FALSE
    /\ dpc = "next"
    /\ ConsumerOff /\ ParserOff

iterateCharactersFromFile ==
    \/ \E w \in 1..(Len(file) - offset) : NextChunk(w) /\ UNCHANGED <<consumerVars, parserVars>>
    \/ ChunksExhausted /\ UNCHANGED <<consumerVars, parserVars>>
    \/ WhileIteration /\ UNCHANGED <<consumerVars, parserVars>>
    \/ WhileExit /\ UNCHANGED <<consumerVars, parserVars>>
    \/ DecoderReturn /\ UNCHANGED <<consumerVars, parserVars>>

SpecDecoder == InitDecoder /\ [][iterateCharactersFromFile]_vars

\* ---- the decoder over every byte sequence, well-formed UTF-8 or not: an
\* ASCII byte, a continuation byte and a leading byte of each length.
Bytes == {65, 128, 195, 227, 240}

InitBytes ==
    /\ file \in SeqsUpTo(Bytes, MaxBytes)
    /\ want = 0 /\ offset = 0 /\ nreads = 0 /\ chunk = <<>> /\ csrc = "run"
    /\ fragment = <<>> /\ start = 0 /\ emitted = <<>> /\ warned = FALSE
    /\ dpc = "next"
    /\ ConsumerOff /\ ParserOff

SpecBytes == InitBytes /\ [][iterateCharactersFromFile]_vars

\* The same, with a consumer that keeps iterating: a step that can be taken
\* is taken.
SpecBytesLive == SpecBytes /\ WF_vars(iterateCharactersFromFile)

\* ---- the decoder run by a consumer.  An async generator runs only while a
\* next() of its consumer is waiting, and is suspended at each yield.
Running == requested /\ ~stopped

\* Mutant of yield: the generator keeps running after it handed over the
\* Character.
yield_eager(c, at) ==
    /\ emitted' = Append(emitted, c)
    /\ dpc' = at
    /\ UNCHANGED requested

\* `yield c`: the Character resolves the waiting next() and the generator is
\* suspended at position at.
yield(c, at) ==
    /\ emitted' = Append(emitted, c)
    /\ dpc' = at
    /\ requested' = FALSE

\* The consumer calls next().
Request ==
    /\ ~requested /\ ~stopped /\ dpc # "done"
    /\ requested' = TRUE
    /\ nrequests' = nrequests + 1
    /\ UNCHANGED <<stopped, nconsumed, chunkVars, decoderVars>>

\* The consumer stops iterating: the suspended generator is never resumed.
Stop ==
    /\ ~requested /\ ~stopped /\ dpc # "done"
    /\ stopped' = TRUE
    /\ UNCHANGED <<requested, nrequests, nconsumed, chunkVars, decoderVars>>

PullNextChunk(w) == Running /\ NextChunk(w) /\ UNCHANGED consumerVars

PullChunksExhausted == Running /\ ChunksExhausted /\ UNCHANGED consumerVars

\* `while (start < chunkSize)` holds: the fragment part of the body, up to
\* `yield combined`.
FragmentPart ==
    /\ Running /\ dpc = "loop"
    /\ start < Len(chunk)
    /\ IF start = 0 /\ Len(fragment) > 0
       THEN LET remainSize == charBytes(fragment[1]) - Len(fragment)
            IN  IF start + remainSize > Len(chunk)
                THEN /\ fragment' = fragment \o chunk
                     /\ start' = Len(chunk)
                     /\ UNCHANGED <<emitted, dpc, requested>>
                ELSE /\ yield(fragment \o Slice(chunk, start, remainSize),
                              "yield31")
                     /\ UNCHANGED <<fragment, start>>
       ELSE /\ dpc' = "char"
            /\ UNCHANGED <<fragment, start, emitted, requested>>
    /\ UNCHANGED <<warned, chunkVars, nrequests, stopped, nconsumed>>

\* Mutant of AfterYieldCombined: the fragment is not cleared.
AfterYieldCombined_keeps ==
    /\ Running /\ dpc = "yield31"
    /\ start' = charBytes(fragment[1]) - Len(fragment)
    /\ dpc' = "char"
    /\ UNCHANGED <<fragment, emitted, warned, chunkVars, consumerVars>>

\* The generator is resumed after `yield combined`.
AfterYieldCombined ==
    /\ Running /\ dpc = "yield31"
    /\ fragment' = <<>>
    /\ start' = charBytes(fragment[1]) - Len(fragment)
    /\ dpc' = "char"
    /\ UNCHANGED <<emitted, warned, chunkVars, consumerVars>>

\* n = charBytes(chunk[start]) and the carry over or `yield character`.
CharacterPart ==
    /\ Running /\ dpc = "char"
    /\ LET chunkSize == Len(chunk)
           n == charBytes(ByteAt(chunk, start))
       IN  IF start + n > chunkSize
           THEN /\ fragment' = Slice(chunk, start, chunkSize)
                /\ start' = chunkSize
                /\ dpc' = "loop"
                /\ UNCHANGED <<emitted, requested>>
           ELSE /\ yield(Slice(chunk, start, start + n), "yield55")
                /\ UNCHANGED <<fragment, start>>
    /\ UNCHANGED <<warned, chunkVars, nrequests, stopped, nconsumed>>

\* The generator is resumed after `yield character`: start = end.
AfterYieldCharacter ==
    /\ Running /\ dpc = "yield55"
    /\ start' = start + charBytes(ByteAt(chunk, start))
    /\ dpc' = "loop"
    /\ UNCHANGED <<fragment, emitted, warned, chunkVars, consumerVars>>

\* `while (start < chunkSize)` fails: the chunk is consumed.
PullWhileExit ==
    /\ Running /\ WhileExit
    /\ nconsumed' = nconsumed + 1
    /\ UNCHANGED <<requested, nrequests, stopped>>

\* The generator returns: the waiting next() is resolved with done.
PullDecoderReturn ==
    /\ Running /\ DecoderReturn
    /\ requested' = FALSE
    /\ UNCHANGED <<nrequests, stopped, nconsumed>>

consumeCharacters ==
    \/ Request /\ UNCHANGED parserVars
    \/ Stop /\ UNCHANGED parserVars
    \/ \E w \in 1..(Len(file) - offset) : PullNextChunk(w) /\ UNCHANGED parserVars
    \/ PullChunksExhausted /\ UNCHANGED parserVars
    \/ FragmentPart /\ UNCHANGED parserVars
    \/ AfterYieldCombined /\ UNCHANGED parserVars
    \/ CharacterPart /\ UNCHANGED parserVars
    \/ AfterYieldCharacter /\ UNCHANGED parserVars
    \/ PullWhileExit /\ UNCHANGED parserVars
    \/ PullDecoderReturn /\ UNCHANGED parserVars

SpecPull == InitBytes /\ [][consumeCharacters]_vars

\* ========================================================================
\* src/js/csvParser.js
\* ========================================================================

\* const COMMA = ",", DQ = '"', CR = "\r", LF = "\n"; "\t"
COMMA == 44
DQ == 34
CR == 13
LF == 10
TAB == 9

\* const STATE = { START_FIELD: 0, IN_FIELD: 1, IN_QUOTED: 2, AFTER_QUOTE: 3 }
START_FIELD == 0
IN_FIELD == 1
IN_QUOTED == 2
AFTER_QUOTE == 3

\* The empty string "" that `next` is at the last character.
NoNext == -1

\* const n = input.length
n == Len(input)

\* const ch = input[i]
ch == input[i + 1]

\* const next = i + 1 < n ? input[i + 1] : ""
next == IF i + 1 < n THEN input[i + 2] ELSE NoNext

\* Mutant of hasCRLF: the character after the CR is not looked at.
hasCRLF_crOnly == ch = CR

\* const hasCRLF = ch === CR && next === LF
hasCRLF == ch = CR /\ next = LF

\* (ch === LF && allowBareLF) || (ch === CR && allowBareCR)
bareAllowed == (ch = LF /\ allowBareLF) \/ (ch = CR /\ allowBareCR)

\* Mutant of isControl: DEL (0x7F) is not a control character.
isControl_c0only(c) == 0 <= c /\ c <= 31

\* function isControl(ch)
isControl(c) == (0 <= c /\ c <= 31) \/ c = 127

\* The options and the input do not change during a parse.
ParseConstants == UNCHANGED <<input, strict, allowBareLF, allowBareCR>>

\* Mutant of endField: an empty field is not pushed to the row.
endField_skipEmpty(st, k) ==
    /\ row' = IF field = <<>> THEN row ELSE Append(row, field)
    /\ field' = <<>>
    /\ state' = st
    /\ i' = i + k
    /\ lastSep' = FALSE
    /\ UNCHANGED <<rows, err, nsep, ppc>>
    /\ ParseConstants

\* endField(), then state = st and i += k
endField(st, k) ==
    /\ row' = Append(row, field)
    /\ field' = <<>>
    /\ state' = st
    /\ i' = i + k
    /\ lastSep' = FALSE
    /\ UNCHANGED <<rows, err, nsep, ppc>>
    /\ ParseConstants

\* endRecord(), then state = st and i += k
endRecord(st, k) ==
    /\ rows' = Append(rows, Append(row, field))
    /\ row' = <<>>
    /\ field' = <<>>
    /\ state' = st
    /\ i' = i + k
    /\ nsep' = nsep + 1
    /\ lastSep' = TRUE
    /\ UNCHANGED <<err, ppc>>
    /\ ParseConstants

\* field += c, then state = st and i += 1
buffer(c, st) ==
    /\ field' = Append(field, c)
    /\ state' = st
    /\ i' = i + 1
    /\ lastSep' = FALSE
    /\ UNCHANGED <<row, rows, err, nsep, ppc>>
    /\ ParseConstants

\* state = st and i += 1
goto(st) ==
    /\ state' = st
    /\ i' = i + 1
    /\ lastSep' = FALSE
    /\ UNCHANGED <<field, row, rows, err, nsep, ppc>>
    /\ ParseConstants

\* throw new SyntaxError(..) of the given kind: the parse is aborted
throw(kind) ==
    /\ ppc' = "thrown"
    /\ err' = kind
    /\ UNCHANGED <<state, i, field, row, rows, nsep, lastSep>>
    /\ ParseConstants

\* Mutant of START_FIELD_case: the handling of a bare CR or LF that is not
\* enabled (the strict error, the lenient end of record) is missing.
START_FIELD_case_nobare ==
    /\ ppc = "scan" /\ i < n /\ state = START_FIELD
    /\ IF ch = DQ THEN goto(IN_QUOTED)
       ELSE IF ch = COMMA THEN endField(START_FIELD, 1)
       ELSE IF hasCRLF THEN endRecord(START_FIELD, 2)
       ELSE IF bareAllowed THEN endRecord(START_FIELD, 1)
       ELSE IF ch = DQ /\ strict
            THEN throw("UnexpectedQuoteInUnquotedField")
       ELSE IF strict /\ (isControl(ch) /\ ch # TAB)
            THEN throw("ControlCharNotAllowed")
       ELSE buffer(ch, IN_FIELD)

\* Mutant of START_FIELD_step: in lenient mode a quote at the start of a
\* field is kept as literal data of an unquoted field.
START_FIELD_step_lenientQuote(sm) ==
    /\ ppc = "scan" /\ i < n /\ state = START_FIELD
    /\ IF ch = DQ /\ sm THEN goto(IN_QUOTED)
       ELSE IF ch = COMMA THEN endField(START_FIELD, 1)
       ELSE IF hasCRLF THEN endRecord(START_FIELD, 2)
       ELSE IF bareAllowed THEN endRecord(START_FIELD, 1)
       ELSE IF ch = CR \/ ch = LF
            THEN IF sm THEN throw("BareNewlineNotAllowed")
                           ELSE endRecord(START_FIELD, 1)
       ELSE IF sm /\ (isControl(ch) /\ ch # TAB)
            THEN throw("ControlCharNotAllowed")
       ELSE buffer(ch, IN_FIELD)

\* case STATE.START_FIELD, under strict mode sm
START_FIELD_step(sm) ==
    /\ ppc = "scan" /\ i < n /\ state = START_FIELD
    /\ IF ch = DQ THEN goto(IN_QUOTED)
       ELSE IF ch = COMMA THEN endField(START_FIELD, 1)
       ELSE IF hasCRLF THEN endRecord(START_FIELD, 2)
       ELSE IF bareAllowed THEN endRecord(START_FIELD, 1)
       ELSE IF ch = CR \/ ch = LF
            THEN IF sm THEN throw("BareNewlineNotAllowed")
                           ELSE endRecord(START_FIELD, 1)
       ELSE IF ch = DQ /\ sm
            THEN throw("UnexpectedQuoteInUnquotedField")
       ELSE IF sm /\ (isControl(ch) /\ ch # TAB)
            THEN throw("ControlCharNotAllowed")
       ELSE buffer(ch, IN_FIELD)

\* case STATE.START_FIELD, under the strict mode of the call
START_FIELD_case == START_FIELD_step(strict)

\* Mutant of IN_FIELD_step: the check of a quote (lines 147-152) is missing.
IN_FIELD_step_noQuoteCheck(sm) ==
    /\ ppc = "scan" /\ i < n /\ state = IN_FIELD
    /\ IF ch = COMMA THEN endField(START_FIELD, 1)
       ELSE IF hasCRLF THEN endRecord(START_FIELD, 2)
       ELSE IF bareAllowed THEN endRecord(START_FIELD, 1)
       ELSE IF sm /\ (ch = CR \/ ch = LF \/ ch = DQ)
            THEN throw("IllegalCharacterInUnquotedField")
       ELSE IF sm /\ (isControl(ch) /\ ch # TAB)
            THEN throw("ControlCharNotAllowed")
       ELSE buffer(ch, IN_FIELD)

\* case STATE.IN_FIELD, under strict mode sm
IN_FIELD_step(sm) ==
    /\ ppc = "scan" /\ i < n /\ state = IN_FIELD
    /\ IF ch = COMMA THEN endField(START_FIELD, 1)
       ELSE IF hasCRLF THEN endRecord(START_FIELD, 2)
       ELSE IF bareAllowed THEN endRecord(START_FIELD, 1)
       ELSE IF ch = DQ /\ sm
            THEN throw("QuoteInsideUnquotedField")
       ELSE IF sm /\ (ch = CR \/ ch = LF \/ ch = DQ)
            THEN throw("IllegalCharacterInUnquotedField")
       ELSE IF sm /\ (isControl(ch) /\ ch # TAB)
            THEN throw("ControlCharNotAllowed")
       ELSE buffer(ch, IN_FIELD)

\* case STATE.IN_FIELD, under the strict mode of the call
IN_FIELD_case == IN_FIELD_step(strict)

\* case STATE.IN_QUOTED
IN_QUOTED_case ==
    /\ ppc = "scan" /\ i < n /\ state = IN_QUOTED
    /\ IF ch = DQ THEN goto(AFTER_QUOTE)
       ELSE buffer(ch, IN_QUOTED)

\* Mutant of AFTER_QUOTE_case: the second quote of a pair returns to the
\* quoted field without buffering a quote.
AFTER_QUOTE_case_noescape ==
    /\ ppc = "scan" /\ i < n /\ state = AFTER_QUOTE
    /\ IF ch = DQ THEN goto(IN_QUOTED)
       ELSE IF ch = COMMA THEN endField(START_FIELD, 1)
       ELSE IF hasCRLF THEN endRecord(START_FIELD, 2)
       ELSE IF bareAllowed THEN endRecord(START_FIELD, 1)
       ELSE IF strict THEN throw("InvalidCharacterAfterClosingQuote")
       ELSE buffer(ch, IN_FIELD)

\* Mutant of AFTER_QUOTE_step: in lenient mode the character after the
\* closing quote is skipped instead of appended to the field.
AFTER_QUOTE_step_dropsChar(sm) ==
    /\ ppc = "scan" /\ i < n /\ state = AFTER_QUOTE
    /\ IF ch = DQ THEN buffer(DQ, IN_QUOTED)
       ELSE IF ch = COMMA THEN endField(START_FIELD, 1)
       ELSE IF hasCRLF THEN endRecord(START_FIELD, 2)
       ELSE IF bareAllowed THEN endRecord(START_FIELD, 1)
       ELSE IF sm THEN throw("InvalidCharacterAfterClosingQuote")
       ELSE goto(IN_FIELD)

\* case STATE.AFTER_QUOTE, under strict mode sm
AFTER_QUOTE_step(sm) ==
    /\ ppc = "scan" /\ i < n /\ state = AFTER_QUOTE
    /\ IF ch = DQ THEN buffer(DQ, IN_QUOTED)
       ELSE IF ch = COMMA THEN endField(START_FIELD, 1)
       ELSE IF hasCRLF THEN endRecord(START_FIELD, 2)
       ELSE IF bareAllowed THEN endRecord(START_FIELD, 1)
       ELSE IF sm THEN throw("InvalidCharacterAfterClosingQuote")
       ELSE buffer(ch, IN_FIELD)

\* case STATE.AFTER_QUOTE, under the strict mode of the call
AFTER_QUOTE_case == AFTER_QUOTE_step(strict)

\* The final endField(); rows.push(row) of the end-of-input handling.
flush ==
    /\ rows' = Append(rows, Append(row, field))
    /\ row' = Append(row, field)
    /\ field' = <<>>

\* if (field !== "" || row.length > 0)
pendingData == field # <<>> \/ Len(row) > 0

\* Mutant of EOF_case: an unterminated quoted field is an error in lenient
\* mode too.
EOF_case_unguarded ==
    /\ ppc = "scan" /\ ~(i < n)
    /\ IF state = IN_QUOTED
       THEN throw("UnterminatedQuotedField")
       ELSE /\ IF pendingData THEN flush ELSE UNCHANGED <<rows, row, field>>
            /\ ppc' = "returned"
            /\ UNCHANGED <<state, i, err, nsep, lastSep>>
            /\ ParseConstants

\* Mutant of EOF_step: in lenient mode an unterminated quoted field is
\* flushed only if there is pending data, as in the other states.
EOF_step_pendingOnly(sm) ==
    /\ ppc = "scan" /\ ~(i < n)
    /\ IF state = IN_QUOTED /\ sm
       THEN throw("UnterminatedQuotedField")
       ELSE /\ IF pendingData THEN flush ELSE UNCHANGED <<rows, row, field>>
            /\ ppc' = "returned"
            /\ UNCHANGED <<state, i, err, nsep, lastSep>>
            /\ ParseConstants

\* `while (i < n)` fails: the switch of the end-of-input handling, and
\* `return rows`, under strict mode sm
EOF_step(sm) ==
    /\ ppc = "scan" /\ ~(i < n)
    /\ IF state = IN_QUOTED
       THEN IF sm
            THEN throw("UnterminatedQuotedField")
            ELSE /\ flush
                 /\ ppc' = "returned"
                 /\ UNCHANGED <<state, i, err, nsep, lastSep>>
                 /\ ParseConstants
       ELSE /\ IF pendingData THEN flush ELSE UNCHANGED <<rows, row, field>>
            /\ ppc' = "returned"
            /\ UNCHANGED <<state, i, err, nsep, lastSep>>
            /\ ParseConstants

\* the end-of-input handling, under the strict mode of the call
EOF_case == EOF_step(strict)

\* ---- parseCSV over every short input and every combination of options,
\* and over every quoted field "s" with the quotes of s doubled
Alphabet == {COMMA, DQ, CR, LF, TAB, 127, 97, 98}

\* s between two quotes, with each quote of s doubled
RECURSIVE Doubled(_)
Doubled(s) ==
    IF s = <<>> THEN <<>>
    ELSE (IF Head(s) = DQ THEN <<DQ, DQ>> ELSE <<Head(s)>>) \o Doubled(Tail(s))

Quote(s) == <<DQ>> \o Doubled(s) \o <<DQ>>

QuotedAlphabet == {COMMA, DQ, CR, LF, 97}

QuotedStrings == SeqsUpTo(QuotedAlphabet, MaxQuoted) \ {<<>>}

\* NUL and US, the first and the last C0 control character, and the space,
\* the first character after them
BoundaryChars == {0, 31, 32}

Inputs ==
    SeqsUpTo(Alphabet, MaxLen)
        \cup {Quote(s) : s \in QuotedStrings}
        \cup SeqsUpTo(Alphabet \cup BoundaryChars, MaxCtl)

InitCSV ==
    /\ input \in Inputs
    /\ strict \in BOOLEAN
    /\ allowBareLF \in BOOLEAN
    /\ allowBareCR \in BOOLEAN
    /\ state = START_FIELD /\ i = 0 /\ field = <<>> /\ row = <<>> /\ rows = <<>>
    /\ err = "none" /\ nsep = 0 /\ lastSep = FALSE /\ ppc = "scan"
    /\ ChunkSourceOff /\ DecoderOff /\ ConsumerOff

parseCSV ==
    \/ START_FIELD_case /\ UNCHANGED <<chunkVars, decoderVars, consumerVars>>
    \/ IN_FIELD_case /\ UNCHANGED <<chunkVars, decoderVars, consumerVars>>
    \/ IN_QUOTED_case /\ UNCHANGED <<chunkVars, decoderVars, consumerVars>>
    \/ AFTER_QUOTE_case /\ UNCHANGED <<chunkVars, decoderVars, consumerVars>>
    \/ EOF_case /\ UNCHANGED <<chunkVars, decoderVars, consumerVars>>

SpecCSV == InitCSV /\ [][parseCSV]_vars

\* ========================================================================
\* The claims
\* ========================================================================

\* C1 (boundary invariance): once the decoder has returned, the Characters
\* it emitted over the partition of a well-formed buffer into chunks are, in
\* order, exactly those emitted when the whole buffer is one single chunk.
C1_BoundaryInvariance ==
    dpc = "done" => emitted = DecodeSingleChunk(file)

\* A three-byte and a four-byte character, every byte in a chunk of its own.
C1_Witness ==
    /\ dpc = "done"
    /\ file = <<227, 129, 130, 240, 159, 152, 128>>
    /\ nreads = 7
    /\ emitted = << <<227, 129, 130>>, <<240, 159, 152, 128>> >>

\* C2 (no split, no duplicate emission): every Character emitted has 1 to 4
\* bytes, as many as charBytes of its first byte says, and once the decoder
\* of a well-formed buffer has returned the emitted Characters, concatenated
\* in emission order, are the buffer.
C2_NoSplitNoDuplicate ==
    /\ \A k \in 1..Len(emitted) :
          /\ Len(emitted[k]) \in 1..4
          /\ Len(emitted[k]) = charBytes(emitted[k][1])
    /\ dpc = "done" => Flatten(emitted) = file

\* Chunks [195] [169 65 240 159] [152 128]: two characters cross a boundary.
C2_Witness ==
    /\ dpc = "done"
    /\ file = <<195, 169, 65, 240, 159, 152, 128>>
    /\ nreads = 3
    /\ chunk = <<152, 128>>
    /\ emitted = << <<195, 169>>, <<65>>, <<240, 159, 152, 128>> >>

\* ceil(a / b)
CeilDiv(a, b) == (a + b - 1) \div b

\* C3 (the chunk source tiles the file): after k reads the offset is
\* min(k*W, S); the k-th read (from 1) yielded the bytes of
\* [(k-1)*W, min(k*W, S)), 1 to W of them and fewer than W only at the end of
\* the file; there are never more than ceil(S/W) reads, and exactly
\* ceil(S/W), none for an empty file, when the source has returned.
C3_ChunksTileFile ==
    LET S == Len(file)
        W == want
    IN  /\ offset = Min(nreads * W, S)
        /\ nreads <= CeilDiv(S, W)
        /\ nreads > 0 =>
              /\ chunk = Slice(file, (nreads - 1) * W, Min(nreads * W, S))
              /\ Len(chunk) \in 1..W
              /\ Len(chunk) < W => offset = S
        /\ csrc = "done" => nreads = CeilDiv(S, W) /\ offset = S
        /\ S = 0 => nreads = 0 /\ chunk = <<>>

\* A file of 9 bytes read through a window of 4: reads of 4, 4 and 1 bytes.
C3_Witness ==
    /\ csrc = "done"
    /\ Len(file) = 9
    /\ want = 4
    /\ nreads = 3
    /\ chunk = <<8>>

\* The scan is at a lone LF or a lone CR (not followed by LF) whose allow
\* flag is off.
AtDisabledBareNewline ==
    /\ ppc = "scan" /\ i < n
    /\ \/ ch = LF /\ ~allowBareLF
       \/ ch = CR /\ ~(i + 1 < n /\ input[i + 2] = LF) /\ ~allowBareCR

\* C4, as amended: in strict mode a lone LF or CR whose allow flag is off
\* makes the parse fail with BareNewlineNotAllowed when met in StartField and
\* with IllegalCharacterInUnquotedField when met in InField.
C4_BareNewlineStrict ==
    [][ (strict /\ AtDisabledBareNewline /\ state \in {START_FIELD, IN_FIELD})
        => /\ ppc' = "thrown"
           /\ err' = IF state = START_FIELD
                     THEN "BareNewlineNotAllowed"
                     ELSE "IllegalCharacterInUnquotedField" ]_vars

\* C4, as claimed: in strict mode a lone LF or CR whose allow flag is off,
\* met in StartField or InField, makes the parse fail with
\* BareNewlineNotAllowed.
C4_Original ==
    [][ (strict /\ AtDisabledBareNewline /\ state \in {START_FIELD, IN_FIELD})
        => /\ ppc' = "thrown"
           /\ err' = "BareNewlineNotAllowed" ]_vars

\* a LF b, strict, no bare LF: the parse has failed at the LF, in InField.
C4_Witness ==
    /\ ppc = "thrown"
    /\ input = <<97, LF, 98>>
    /\ strict /\ ~allowBareLF /\ ~allowBareCR
    /\ state = IN_FIELD /\ i = 1
    /\ err = "IllegalCharacterInUnquotedField"

\* C5, as claimed: in lenient mode every single CR or LF met in StartField,
\* InField or AfterQuote, whatever the allow flags, ends the record (the
\* field is closed, the row is appended, the state becomes StartField) and
\* is not buffered.
C5_LenientNewlineEndsRecord ==
    [][ (/\ ppc = "scan" /\ i < n /\ ~strict
         /\ state \in {START_FIELD, IN_FIELD, AFTER_QUOTE}
         /\ ch \in {CR, LF})
        => /\ rows' = Append(rows, Append(row, field))
           /\ row' = <<>>
           /\ field' = <<>>
           /\ state' = START_FIELD ]_vars

\* C6 (lenient mode is total): with strict = false the parse never fails,
\* whatever the input and the allow flags, it can always take its next step
\* until it has returned; a failed parse is a strict one.
C6_LenientTotal ==
    /\ ~strict => ppc \in {"scan", "returned"} /\ err = "none"
    /\ ppc = "thrown" => strict /\ err # "none"
    /\ (~strict /\ ppc = "scan") => ENABLED parseCSV

\* a " DEL LF in lenient mode: strict mode rejects each of the last three.
C6_Witness ==
    /\ ppc = "returned"
    /\ ~strict /\ ~allowBareLF /\ ~allowBareCR
    /\ input = <<97, DQ, 127, LF>>
    /\ rows = << << <<97, DQ, 127, LF>> >> >>

\* C7, as claimed: a non-empty input parsed without error yields one row
\* more than the record separators recognised when it does not end with a
\* record separator, and as many rows as record separators when it does.
C7_EndOfInput ==
    (ppc = "returned" /\ n > 0)
        => Len(rows) = nsep + (IF lastSep THEN 0 ELSE 1)

\* In t every quote is one of a pair of adjacent quotes.
RECURSIVE QuotesDoubled(_)
QuotesDoubled(t) ==
    IF t = <<>> THEN TRUE
    ELSE IF Head(t) # 34 THEN QuotesDoubled(Tail(t))
    ELSE Len(t) >= 2 /\ t[2] = 34 /\ QuotesDoubled(Tail(Tail(t)))

\* x is a quote, a non-empty s with each quote doubled, and a closing quote.
IsQuotedText(x) ==
    /\ Len(x) >= 3
    /\ x[1] = 34 /\ x[Len(x)] = 34
    /\ QuotesDoubled(SubSeq(x, 2, Len(x) - 1))

\* C8 (quoting round trip): the text "s", with the quotes of the non-empty s
\* doubled, parses without error under every combination of options, and to
\* the table of one row of one field, which is s (the field, quoted again,
\* is the input).
C8_QuotingRoundTrip ==
    IsQuotedText(input) =>
        /\ ppc # "thrown"
        /\ ppc = "returned" =>
              /\ Len(rows) = 1 /\ Len(rows[1]) = 1
              /\ rows[1][1] # <<>>
              /\ Quote(rows[1][1]) = input

\* s = , " LF quoted: the comma, the doubled quote and the LF are the field.
C8_Witness ==
    /\ ppc = "returned"
    /\ strict /\ ~allowBareLF /\ ~allowBareCR
    /\ input = <<DQ, COMMA, DQ, DQ, LF, DQ>>
    /\ rows = << << <<COMMA, DQ, LF>> >> >>

\* The fields of a text of commas and ordinary characters: the texts
\* between the commas, in order (cur is the field being read).
RECURSIVE SplitOnComma(_, _)
SplitOnComma(s, cur) ==
    IF s = <<>> THEN <<cur>>
    ELSE IF Head(s) = 44 THEN <<cur>> \o SplitOnComma(Tail(s), <<>>)
    ELSE SplitOnComma(Tail(s), Append(cur, Head(s)))

\* A non-empty text of commas and ordinary characters only
CommasAndOrdinary(s) ==
    /\ s # <<>>
    /\ \A k \in 1..Len(s) : s[k] = 44 \/ s[k] \in {97, 98}

\* C9 (empty fields are preserved): a non-empty input of commas and ordinary
\* characters parses in both modes, without error, to one row whose fields
\* are the texts between the commas, the empty ones included, in order.
C9_EmptyFieldsPreserved ==
    CommasAndOrdinary(input) =>
        /\ ppc # "thrown"
        /\ ppc = "returned" =>
              /\ rows = << SplitOnComma(input, <<>>) >>
              /\ Len(rows[1]) = Cardinality({k \in 1..n : input[k] = 44}) + 1

\* a,,b
C9_Witness ==
    /\ ppc = "returned"
    /\ strict
    /\ input = <<97, COMMA, COMMA, 98>>
    /\ rows = << << <<97>>, <<>>, <<98>> >> >>

\* The scan is at a CRLF pair
AtCRLF == i + 1 < n /\ input[i + 1] = 13 /\ input[i + 2] = 10

\* The scan, outside a quoted field, is at an enabled record separator.
AtEnabledSeparator ==
    /\ ppc = "scan" /\ i < n
    /\ state \in {START_FIELD, IN_FIELD, AFTER_QUOTE}
    /\ \/ AtCRLF
       \/ input[i + 1] = 10 /\ allowBareLF
       \/ input[i + 1] = 13 /\ allowBareCR

\* C10 (enabled record separators): in both modes a CRLF pair, a lone LF
\* with allowBareLF and a lone CR with allowBareCR, met in StartField,
\* InField or AfterQuote, ends the record without error and moves to
\* StartField, a CRLF pair being consumed as one separator; a CRLF b in
\* strict mode and a LF b with allowBareLF parse to the rows [a] and [b].
C10_EnabledSeparators ==
    /\ [][ AtEnabledSeparator
           => /\ ppc' = "scan" /\ err' = "none"
              /\ rows' = Append(rows, Append(row, field))
              /\ row' = <<>>
              /\ field' = <<>>
              /\ state' = START_FIELD
              /\ i' = i + (IF AtCRLF THEN 2 ELSE 1) ]_vars
    /\ [](((input = <<97, 13, 10, 98>> /\ strict)
             \/ (input = <<97, 10, 98>> /\ allowBareLF))
          => /\ ppc # "thrown"
             /\ ppc = "returned" => rows = << << <<97>> >>, << <<98>> >> >>)

\* a CRLF b in strict mode with both allow flags off
C10_Witness ==
    /\ ppc = "returned"
    /\ strict /\ ~allowBareLF /\ ~allowBareCR
    /\ input = <<97, CR, LF, 98>>
    /\ rows = << << <<97>> >>, << <<98>> >> >>
    /\ nsep = 1

\* C11 (unterminated quoted field): when the scan ends in InQuoted, strict
\* mode fails with UnterminatedQuotedField and returns no table, and lenient
\* mode returns the table whose last row is the row under construction with
\* the accumulated field, empty or not, appended as its last field.
C11_UnterminatedQuoted ==
    [][ (ppc = "scan" /\ ~(i < n) /\ state = IN_QUOTED)
        => IF strict
           THEN /\ ppc' = "thrown"
                /\ err' = "UnterminatedQuotedField"
                /\ rows' = rows
           ELSE /\ ppc' = "returned"
                /\ err' = "none"
                /\ rows' = Append(rows, Append(row, field)) ]_vars

\* a," in lenient mode: the open quoted field is empty.
C11_Witness ==
    /\ ppc = "returned"
    /\ ~strict
    /\ state = IN_QUOTED
    /\ input = <<97, COMMA, DQ>>
    /\ rows = << << <<97>>, <<>> >> >>

\* A code point 0x00-0x1F or 0x7F
IsControlCodePoint(c) == c \in 0..31 \/ c = 127

\* The character c is buffered as literal data and the parse goes on.
Buffered(c) ==
    /\ ppc' = "scan" /\ err' = "none"
    /\ field' = Append(field, c)
    /\ row' = row /\ rows' = rows
    /\ i' = i + 1

\* A strict parse fails on a control character other than TAB, CR and LF
\* met in StartField or InField, with ControlCharNotAllowed; no control
\* character met in InQuoted is an error.
ControlCharSteps ==
    /\ (/\ strict /\ state \in {START_FIELD, IN_FIELD}
        /\ IsControlCodePoint(ch) /\ ch \notin {9, 13, 10})
       => ppc' = "thrown" /\ err' = "ControlCharNotAllowed"
    /\ (state = IN_QUOTED /\ IsControlCodePoint(ch))
       => Buffered(ch) /\ state' = IN_QUOTED

\* C12, as amended: control characters as in ControlCharSteps; TAB is
\* buffered as literal field data in StartField, InField and InQuoted in
\* both modes and in AfterQuote in lenient mode; in AfterQuote in strict
\* mode TAB, as any other character, fails with
\* InvalidCharacterAfterClosingQuote.
C12_ControlChars ==
    [][ (ppc = "scan" /\ i < n)
        => /\ ControlCharSteps
           /\ (ch = 9 /\ ~(state = AFTER_QUOTE /\ strict))
              => /\ Buffered(9)
                 /\ state' = IF state = IN_QUOTED THEN IN_QUOTED ELSE IN_FIELD
           /\ (ch = 9 /\ state = AFTER_QUOTE /\ strict)
              => /\ ppc' = "thrown"
                 /\ err' = "InvalidCharacterAfterClosingQuote" ]_vars

\* C12, as claimed: control characters as in ControlCharSteps, and TAB is
\* buffered as literal field data in every state and in both modes.
C12_Original ==
    [][ (ppc = "scan" /\ i < n)
        => /\ ControlCharSteps
           /\ ch = 9 => Buffered(9) ]_vars

\* a DEL in strict mode: the parse has failed at DEL, in InField.
C12_Witness ==
    /\ ppc = "thrown"
    /\ strict
    /\ input = <<97, 127>>
    /\ state = IN_FIELD /\ i = 1
    /\ err = "ControlCharNotAllowed"

\* The scan is at an enabled record separator: a CRLF pair, a lone LF with
\* allowBareLF, or a lone CR with allowBareCR.
AtSeparatorChar ==
    \/ AtCRLF
    \/ input[i + 1] = 10 /\ allowBareLF
    \/ input[i + 1] = 13 /\ allowBareCR

C18_QuoteHandling ==
    /\ [](err # "UnexpectedQuoteInUnquotedField")
    /\ [][ (ppc = "scan" /\ i < n /\ ch = 34)
           => /\ state = START_FIELD
                 => /\ ppc' = "scan" /\ err' = "none"
                    /\ state' = IN_QUOTED
                    /\ field' = field /\ row' = row /\ rows' = rows
                    /\ i' = i + 1
              /\ state = IN_FIELD
                 => IF strict
                    THEN /\ ppc' = "thrown"
                         /\ err' = "QuoteInsideUnquotedField"
                    ELSE Buffered(34) /\ state' = IN_FIELD ]_vars

\* a" in strict mode: the parse has failed at the quote, in InField.
C18_Witness ==
    /\ ppc = "thrown"
    /\ strict
    /\ input = <<97, DQ>>
    /\ state = IN_FIELD /\ i = 1
    /\ err = "QuoteInsideUnquotedField"

\* One step of parseCSV under strict mode sm
parseStep(sm) ==
    \/ START_FIELD_step(sm)
    \/ IN_FIELD_step(sm)
    \/ IN_QUOTED_case
    \/ AFTER_QUOTE_step(sm)
    \/ EOF_step(sm)

\* C19 (lenient mode extends strict mode): every step of a strict parse that
\* does not fail is, from the same state and with the same allow flags, the
\* step of the lenient parse.  Both parses start in the same state, so a
\* strict parse that returns a table has gone through the states of the
\* lenient parse of the same input and returns the table it returns: the
\* two modes differ only on the inputs strict mode rejects.
C19_LenientExtendsStrict ==
    [][ (strict /\ ppc = "scan" /\ ppc' # "thrown") => parseStep(FALSE) ]_vars

\* "",b in strict mode: an empty quoted field, a comma, an unquoted field.
C19_Witness ==
    /\ ppc = "returned"
    /\ strict /\ ~allowBareLF /\ ~allowBareCR
    /\ input = <<DQ, DQ, COMMA, 98>>
    /\ rows = << << <<>>, <<98>> >> >>

\* The complete characters of byte sequence b, read from its start: each
\* leading byte announces its length; the reading ends at the first
\* character that b does not hold whole.
RECURSIVE CompleteChars(_)
CompleteChars(b) ==
    IF b = <<>> THEN <<>>
    ELSE LET k == charBytes(b[1])
         IN  IF k <= Len(b)
             THEN <<SubSeq(b, 1, k)>> \o CompleteChars(SubSeq(b, k + 1, Len(b)))
             ELSE <<>>

\* C13: the decoder pipeline is pull-based.  No read of the file is issued
\* before the consumer requested the first Character; a read is issued only
\* while a request of the consumer is waiting, after every chunk read before
\* is fully consumed and every Character completed in the bytes read so far
\* is delivered; a consumer that stopped causes no further read; the reads
\* issued exceed the chunks fully consumed by at most one.
C13_PullBasedLaziness ==
    /\ [](nreads > 0 => nrequests > 0)
    /\ [](nreads - nconsumed \in {0, 1})
    /\ [][nreads' # nreads =>
            /\ requested /\ ~stopped
            /\ nrequests = Len(emitted) + 1
            /\ nreads = nconsumed
            /\ emitted = CompleteChars(Slice(file, 0, offset))]_vars
    /\ [][stopped => nreads' = nreads /\ emitted' = emitted]_vars

\* The second chunk is being read for a consumer that was handed the
\* Characters of the first chunk and asked for one more.
C13_Witness ==
    /\ nreads = 2 /\ nconsumed = 1 /\ dpc = "loop" /\ start = 0
    /\ Len(emitted) >= 1 /\ requested

\* A consumer stopped after a Character while bytes of the file are unread.
C13_WitnessStopped ==
    /\ stopped /\ Len(emitted) >= 1 /\ offset < Len(file)

\* The decoder is between two chunks or past the last one.
AtChunkEnd == dpc \in {"next", "after", "done"}

IsPrefix(s, t) == Len(s) <= Len(t) /\ SubSeq(t, 1, Len(s)) = s

\* C14: for any byte stream and any partition into chunks, after each chunk
\* the pending fragment is empty or is shorter than the character its first
\* byte announces, hence of at most 3 bytes.  A fragment whose Character is
\* emitted is a proper prefix of it, and it is cleared by the first step the
\* decoder takes after the emission; no fragment is pending while the scan
\* is inside the chunk.
C14_FragmentInvariant ==
    /\ [](AtChunkEnd =>
            \/ fragment = <<>>
            \/ /\ 0 < Len(fragment)
               /\ Len(fragment) < charBytes(fragment[1])
               /\ Len(fragment) <= 3)
    /\ [](dpc = "yield31" =>
            /\ IsPrefix(fragment, emitted[Len(emitted)])
            /\ Len(fragment) < Len(emitted[Len(emitted)]))
    /\ [](dpc \in {"char", "yield55"} => fragment = <<>>)
    /\ [][dpc = "yield31" /\ dpc' # "yield31" => fragment' = <<>>]_vars

\* The chunks <<195>> and <<128, 240>>: the fragment <<195>> was completed
\* and emitted, and the second chunk leaves the fragment <<240>>.
C14_Witness ==
    /\ dpc = "next" /\ nconsumed = 2
    /\ emitted = << <<195, 128>> >>
    /\ fragment = <<240>>

\* The buffer is well-formed at the level the decoder reads it: it is a
\* sequence of whole characters, each a leading byte followed by the
\* continuation bytes it announces.
IsContinuation(b) == 128 <= b /\ b <= 191

RECURSIVE IsWellFormed(_)
IsWellFormed(b) ==
    \/ b = <<>>
    \/ /\ ~IsContinuation(b[1])
       /\ LET k == IF b[1] >= 240 THEN 4 ELSE IF b[1] >= 224 THEN 3
                   ELSE IF b[1] >= 192 THEN 2 ELSE 1
          IN  /\ k <= Len(b)
              /\ \A j \in 2..k : IsContinuation(b[j])
              /\ IsWellFormed(SubSeq(b, k + 1, Len(b)))

\* charBytes is about to be applied to the first byte of the fragment
\* (line 15).
AppliesToFragment ==
    dpc = "loop" /\ start < Len(chunk) /\ start = 0 /\ Len(fragment) > 0

\* charBytes is about to be applied to chunk[start] (line 38).
AppliesToChunk == dpc = "char"

\* C15: for every well-formed stream and every partition into chunks,
\* charBytes is applied to the first byte of the pending fragment, which is
\* a leading byte, or to the byte at a position inside the chunk at which a
\* character starts; never to a continuation byte, never outside the chunk.
C15_LeadingByteDiscipline ==
    IsWellFormed(file) =>
        /\ AppliesToFragment => ~IsContinuation(fragment[1])
        /\ AppliesToChunk =>
              /\ 0 <= start /\ start < Len(chunk)
              /\ ~IsContinuation(chunk[start + 1])

\* What holds instead: the position is inside the chunk or is its length,
\* and inside the chunk it is the start of a character.
C15_UpToChunkEnd ==
    IsWellFormed(file) =>
        /\ AppliesToFragment => ~IsContinuation(fragment[1])
        /\ AppliesToChunk =>
              /\ 0 <= start /\ start <= Len(chunk)
              /\ start < Len(chunk) => ~IsContinuation(chunk[start + 1])

\* The chunks <<195>> and <<128>>: the fragment is completed by the whole
\* chunk, and charBytes is applied to chunk[1] of a chunk of length 1.
C15_OutsideChunk ==
    /\ file = <<195, 128>> /\ chunk = <<128>>
    /\ AppliesToChunk /\ start = Len(chunk)

\* C16: when the chunks are exhausted while a fragment is pending, the
\* decoder ends normally and reports the diagnostic (and reports it in no
\* other case); the fragment is not emitted: the Characters emitted are
\* exactly the complete characters of the stream, and the fragment is the
\* rest of the stream.
C16_TruncatedInput ==
    /\ [](dpc = "after" /\ fragment # <<>> => ENABLED DecoderReturn)
    /\ [](dpc = "done" => (warned <=> fragment # <<>>))
    /\ [](dpc # "done" => ~warned)
    /\ [](dpc = "done" /\ fragment # <<>> =>
            /\ emitted = CompleteChars(file)
            /\ Flatten(emitted) \o fragment = file)
    /\ [][dpc = "after" => emitted' = emitted /\ dpc' = "done"]_vars

\* The stream 41 E3 80 read as the chunks <<65, 227>> and <<128>> has
\* ended: "A" was emitted, the 2 bytes of the cut character were not.
C16_Witness ==
    /\ dpc = "done" /\ warned /\ nreads = 2
    /\ file = <<65, 227, 128>>
    /\ emitted = << <<65>> >>
    /\ fragment = <<227, 128>>

\* The number of bytes of the file the decoder has scanned.
Scanned == IF dpc = "loop" THEN offset - Len(chunk) + start ELSE offset

\* C20: for every byte sequence and every partition into chunks, the
\* Characters emitted so far followed by the pending fragment are exactly
\* the bytes scanned so far, which after each chunk are the bytes of the
\* chunks read so far; every iteration of the decoding loop strictly
\* advances the position in the chunk and stays inside it; and the decoder
\* terminates.
C20_ByteConservation ==
    /\ [](Flatten(emitted) \o fragment = Slice(file, 0, Scanned))
    /\ [][dpc = "loop" /\ dpc' = "loop" =>
            start < start' /\ start' <= Len(chunk)]_vars
    /\ [](dpc # "done" => ENABLED iterateCharactersFromFile)
    /\ <>(dpc = "done")

\* A stream that is not UTF-8, <<128, 240, 65>> read as the chunks
\* <<128, 240>> and <<65>>: <<128>> was emitted alone and <<240, 65>> is
\* pending at the end.
C20_Witness ==
    /\ dpc = "done" /\ nreads = 2
    /\ file = <<128, 240, 65>>
    /\ emitted = << <<128>> >>
    /\ fragment = <<240, 65>>

=============================================================================
